---- MODULE Spec2Model ----
(***************************************************************************)
(* PriorityQueue<K, V> of priorityqueue.hh (the finished revision, the     *)
(* second class definition of the file): one std::multiset of              *)
(* std::pair<V, K>, ordered by std::pair's operator<, i.e. by (value, key).*)
(* A container is modelled as the sorted sequence of its pairs <<v, k>>,   *)
(* which is the sequence an in-order traversal begin()..end() yields.      *)
(***************************************************************************)
EXTENDS Integers, Sequences, FiniteSets, TLC

\* ------------------------------------------------------------------ bounds
\* keys are 1..NumKeys and values 1..NumValues; at most MaxEntries entries are
\* held by the two objects together when insert is called; at most MaxCalls
\* insert calls per object are counted (SpecCount)
NumKeys == 2
NumValues == 2
MaxEntries == 2
MaxCalls == 4

Keys == 1..NumKeys
Values == 1..NumValues
Queues == {"a", "b"}

VARIABLES
    q,      \* q[i]: the member `container` of queue object i
    pc,     \* position of the running call: "idle", or inside merge's loop
    last,   \* the call made last (or running): operation, arguments, outcome
    pre,    \* the containers as they were when that call was entered
    calls   \* per object: insert calls that returned, deletions that erased

vars == <<q, pc, last, pre, calls>>

\* ------------------------------------------------- std::pair, std::multiset

\* std::pair<V, K>::operator< : lexicographic, first (value) then second (key)
PairLessValueOnly(x, y) == x[1] < y[1]
PairLess(x, y) == x[1] < y[1] \/ (x[1] = y[1] /\ x[2] < y[2])

MinOf(S) == CHOOSE x \in S : \A y \in S : x <= y

\* container.begin() is position 1, container.end() is position Len + 1
Begin(c) == 1
End(c) == Len(c) + 1

\* multiset::upper_bound(p): the first position whose element is greater than p
UpperBound(c, p) ==
    LET after == {n \in 1..Len(c) : PairLess(p, c[n])}
    IN  IF after = {} THEN End(c) ELSE MinOf(after)

\* multiset::erase(iterator): removes the one element at that position
EraseAll(c, n) == SelectSeq(c, LAMBDA e : e # c[n])
Erase(c, n) == SubSeq(c, 1, n - 1) \o SubSeq(c, n + 1, Len(c))

\* multiset::insert(p): a new element, placed at the upper bound of its equals
MultisetInsertUnique(c, p) ==
    IF \E n \in 1..Len(c) : c[n] = p THEN c
    ELSE LET n == UpperBound(c, p)
         IN  SubSeq(c, 1, n - 1) \o <<p>> \o SubSeq(c, n, Len(c))
MultisetInsert(c, p) ==
    LET n == UpperBound(c, p)
    IN  SubSeq(c, 1, n - 1) \o <<p>> \o SubSeq(c, n, Len(c))

\* ------------------------------------------------------ PriorityQueue<K, V>

empty(c) == Len(c) = 0
size(c) == Len(c)

\* the result of a call: the exception it raised ("none": it returned), the
\* value it returned (0: void) and the container it leaves
Result(e, r, c) == [err |-> e, ret |-> r, container |-> c]

insertSwapped(c, key, value) == MultisetInsert(c, <<key, value>>)
insert(c, key, value) == MultisetInsert(c, <<value, key>>)

minValueUnchecked(c) ==
    IF empty(c) THEN Result("none", 0, c) ELSE Result("none", c[Begin(c)][1], c)
minValue(c) ==
    IF empty(c) THEN Result("Empty", 0, c) ELSE Result("none", c[Begin(c)][1], c)

maxValue(c) ==
    IF empty(c) THEN Result("Empty", 0, c) ELSE Result("none", c[Len(c)][1], c)

minKey(c) ==
    IF empty(c) THEN Result("Empty", 0, c) ELSE Result("none", c[Begin(c)][2], c)

maxKey(c) ==
    IF empty(c) THEN Result("Empty", 0, c) ELSE Result("none", c[Len(c)][2], c)

deleteMinAllEqual(c) ==
    IF empty(c) THEN Result("none", 0, c) ELSE Result("none", 0, EraseAll(c, Begin(c)))
deleteMinThrows(c) ==
    IF empty(c) THEN Result("Empty", 0, c) ELSE Result("none", 0, Erase(c, Begin(c)))
deleteMin(c) ==
    IF empty(c) THEN Result("none", 0, c) ELSE Result("none", 0, Erase(c, Begin(c)))

deleteMaxAllEqual(c) ==
    IF empty(c) THEN Result("none", 0, c) ELSE Result("none", 0, EraseAll(c, End(c) - 1))
deleteMax(c) ==
    IF empty(c) THEN Result("none", 0, c) ELSE Result("none", 0, Erase(c, End(c) - 1))

\* changeValue: it = upper_bound((value, key)); throw if it == begin(); it--;
\* erase(it); insert(key, value).  allocFails: the insert throws bad_alloc
\* after the erase was done.
changeValueNoErase(c, key, value, allocFails) ==
    LET it == UpperBound(c, <<value, key>>)
    IN  IF it = Begin(c) THEN Result("NotFound", 0, c)
        ELSE IF allocFails THEN Result("bad_alloc", 0, c)
        ELSE Result("none", 0, insert(c, key, value))
changeValue(c, key, value, allocFails) ==
    LET it == UpperBound(c, <<value, key>>)
    IN  IF it = Begin(c) THEN Result("NotFound", 0, c)
        ELSE IF allocFails THEN Result("bad_alloc", 0, Erase(c, it - 1))
        ELSE Result("none", 0, insert(Erase(c, it - 1), key, value))

\* Copying, moving and swapping act on two objects: the result names the
\* container *this is left with (self) and the one the argument is left with
\* (queue).
Both(c, d) == [self |-> c, queue |-> d]

\* PriorityQueue(const PriorityQueue &queue) : container(queue.container)
copyConstruct(d) == Both(d, d)

\* operator=(const PriorityQueue &queue): copy(container); copy = queue.container;
\* container.swap(copy)
copyAssignMoves(c, d) == Both(d, <<>>)
copyAssign(c, d) ==
    LET copy == d
    IN  Both(copy, d)

\* PriorityQueue(PriorityQueue &&queue) : container(std::move(queue.container));
\* the moved-from std::multiset is left empty
moveConstruct(d) == Both(d, <<>>)

\* operator=(PriorityQueue &&queue): container = std::move(queue.container)
moveAssignSwaps(c, d) == Both(d, c)
moveAssign(c, d) == Both(d, <<>>)

\* swap(queue): container.swap(queue.container)
swapAssigns(c, d) == Both(d, d)
swap(c, d) == Both(d, c)

\* std::lexicographical_compare over the two containers from position n on,
\* the elements compared by std::pair's operator<
RECURSIVE LexicographicalCompare(_, _, _)
LexicographicalCompare(c, d, n) ==
    IF n > Len(c) \/ n > Len(d) THEN n > Len(c) /\ n <= Len(d)
    ELSE IF PairLess(c[n], d[n]) THEN TRUE
    ELSE IF PairLess(d[n], c[n]) THEN FALSE
    ELSE LexicographicalCompare(c, d, n + 1)

operatorEqSizes(c, d) == Len(c) = Len(d)

\* operator==: container == queue.container (equal sizes, equal elements in turn)
operatorEq(c, d) == Len(c) = Len(d) /\ \A n \in 1..Len(c) : c[n] = d[n]

\* operator<: container < queue.container
operatorLt(c, d) == LexicographicalCompare(c, d, 1)

\* the free operators !=, >, >=, <= (first, second)
operatorNe(c, d) == ~operatorEq(c, d)
operatorGt(c, d) == operatorLt(d, c)
operatorGe(c, d) == ~operatorLt(c, d)
operatorLeStrict(c, d) == operatorLt(c, d)
operatorLe(c, d) == ~operatorLt(d, c)

\* ----------------------------------------------------------------- actions

TotalEntries == Len(q["a"]) + Len(q["b"])

Call(o, i, j, k, v, r) ==
    [op |-> o, self |-> i, other |-> j, key |-> k, value |-> v,
     err |-> r.err, ret |-> r.ret]

Init ==
    /\ q = [i \in Queues |-> <<>>]
    /\ pc = "idle"
    /\ last = Call("init", "a", "a", 0, 0, Result("none", 0, <<>>))
    /\ pre = [i \in Queues |-> <<>>]
    /\ calls = [i \in Queues |-> [ins |-> 0, del |-> 0]]

\* a call that runs as one step: `r` is its result on q[i]
Step(o, i, k, v, r) ==
    /\ pc = "idle"
    /\ pre' = q
    /\ q' = [q EXCEPT ![i] = r.container]
    /\ last' = Call(o, i, i, k, v, r)
    /\ pc' = "idle"

Insert(i, k, v) ==
    /\ TotalEntries < MaxEntries
    /\ Step("insert", i, k, v, Result("none", 0, insert(q[i], k, v)))

\* std::multiset::insert throws std::bad_alloc and changes nothing
InsertAllocFail(i, k, v) ==
    /\ TotalEntries < MaxEntries
    /\ Step("insert", i, k, v, Result("bad_alloc", 0, q[i]))

MinValue(i) == Step("minValue", i, 0, 0, minValue(q[i]))
MaxValue(i) == Step("maxValue", i, 0, 0, maxValue(q[i]))
MinKey(i) == Step("minKey", i, 0, 0, minKey(q[i]))
MaxKey(i) == Step("maxKey", i, 0, 0, maxKey(q[i]))

DeleteMin(i) == Step("deleteMin", i, 0, 0, deleteMin(q[i]))
DeleteMax(i) == Step("deleteMax", i, 0, 0, deleteMax(q[i]))

ChangeValue(i, k, v) ==
    /\ TotalEntries <= MaxEntries
    /\ Step("changeValue", i, k, v, changeValue(q[i], k, v, FALSE))

ChangeValueAllocFail(i, k, v) ==
    /\ TotalEntries <= MaxEntries
    /\ changeValue(q[i], k, v, TRUE).err = "bad_alloc"
    /\ Step("changeValue", i, k, v, changeValue(q[i], k, v, TRUE))

\* merge(queue): while (!queue.empty()) { container.insert(*queue.container.begin());
\*                                        queue.container.erase(queue.container.begin()); }
\* i is *this and j is queue; j = i is the self-merge.
MergeCall(i, j) ==
    /\ pc = "idle"
    /\ pre' = q
    /\ last' = Call("merge", i, j, 0, 0, Result("none", 0, <<>>))
    /\ pc' = "merge"
    /\ UNCHANGED q

MergeInsert ==
    /\ pc = "merge"
    /\ ~empty(q[last.other])
    /\ q' = [q EXCEPT ![last.self] =
                MultisetInsert(q[last.self], q[last.other][Begin(q[last.other])])]
    /\ pc' = "merge_erase"
    /\ UNCHANGED <<last, pre>>

MergeInsertAllocFail ==
    /\ pc = "merge"
    /\ ~empty(q[last.other])
    /\ last' = [last EXCEPT !.err = "bad_alloc"]
    /\ pc' = "idle"
    /\ UNCHANGED <<q, pre>>

MergeErase ==
    /\ pc = "merge_erase"
    /\ q' = [q EXCEPT ![last.other] = Erase(q[last.other], Begin(q[last.other]))]
    /\ pc' = "merge"
    /\ UNCHANGED <<last, pre>>

MergeReturn ==
    /\ pc = "merge"
    /\ empty(q[last.other])
    /\ pc' = "idle"
    /\ UNCHANGED <<q, last, pre>>

\* a call on *this = i with the argument queue = j, run as one step
Step2(o, i, j, e, r) ==
    /\ pc = "idle"
    /\ pre' = q
    /\ q' = [q EXCEPT ![j] = r.queue, ![i] = r.self]
    /\ last' = Call(o, i, j, 0, 0, Result(e, 0, <<>>))
    /\ pc' = "idle"

\* object i ends and is constructed anew as a copy of j
CopyConstruct(i, j) ==
    /\ i # j
    /\ Len(q[j]) < MaxEntries
    /\ Step2("copyConstruct", i, j, "none", copyConstruct(q[j]))

CopyAssign(i, j) ==
    /\ Len(q[j]) < MaxEntries
    /\ Step2("copyAssign", i, j, "none", copyAssign(q[i], q[j]))

\* the copy of queue.container throws std::bad_alloc before the swap
CopyAssignAllocFail(i, j) ==
    /\ ~empty(q[j])
    /\ Step2("copyAssign", i, j, "bad_alloc", Both(q[i], q[j]))

\* object i ends and is constructed anew from std::move(j)
MoveConstruct(i, j) ==
    /\ i # j
    /\ Step2("moveConstruct", i, j, "none", moveConstruct(q[j]))

MoveAssign(i, j) ==
    /\ i # j
    /\ Step2("moveAssign", i, j, "none", moveAssign(q[i], q[j]))

Swap(i, j) == Step2("swap", i, j, "none", swap(q[i], q[j]))

\* the free function swap(first, second): first.swap(second)
SwapFree(i, j) == Step2("swapFree", i, j, "none", swap(q[i], q[j]))

Next ==
    \/ \E i \in Queues, k \in Keys, v \in Values : Insert(i, k, v) /\ UNCHANGED calls
    \/ \E i \in Queues, k \in Keys, v \in Values : InsertAllocFail(i, k, v) /\ UNCHANGED calls
    \/ \E i \in Queues : MinValue(i) /\ UNCHANGED calls
    \/ \E i \in Queues : MaxValue(i) /\ UNCHANGED calls
    \/ \E i \in Queues : MinKey(i) /\ UNCHANGED calls
    \/ \E i \in Queues : MaxKey(i) /\ UNCHANGED calls
    \/ \E i \in Queues : DeleteMin(i) /\ UNCHANGED calls
    \/ \E i \in Queues : DeleteMax(i) /\ UNCHANGED calls
    \/ \E i \in Queues, k \in Keys, v \in Values : ChangeValue(i, k, v) /\ UNCHANGED calls
    \/ \E i \in Queues, k \in Keys, v \in Values : ChangeValueAllocFail(i, k, v) /\ UNCHANGED calls
    \/ \E i \in Queues, j \in Queues : MergeCall(i, j) /\ UNCHANGED calls
    \/ MergeInsert /\ UNCHANGED calls
    \/ MergeInsertAllocFail /\ UNCHANGED calls
    \/ MergeErase /\ UNCHANGED calls
    \/ MergeReturn /\ UNCHANGED calls
    \/ \E i \in Queues, j \in Queues : CopyConstruct(i, j) /\ UNCHANGED calls
    \/ \E i \in Queues, j \in Queues : CopyAssign(i, j) /\ UNCHANGED calls
    \/ \E i \in Queues, j \in Queues : CopyAssignAllocFail(i, j) /\ UNCHANGED calls
    \/ \E i \in Queues, j \in Queues : MoveConstruct(i, j) /\ UNCHANGED calls
    \/ \E i \in Queues, j \in Queues : MoveAssign(i, j) /\ UNCHANGED calls
    \/ \E i \in Queues, j \in Queues : Swap(i, j) /\ UNCHANGED calls
    \/ \E i \in Queues, j \in Queues : SwapFree(i, j) /\ UNCHANGED calls

Spec == Init /\ [][Next]_vars

\* merge is one call of a single thread: once entered, its loop keeps running
MergeLoop == (MergeInsert \/ MergeErase \/ MergeReturn) /\ UNCHANGED calls

FairSpec == Init /\ [][Next]_vars /\ WF_vars(MergeLoop)

\* insert, deleteMin and deleteMax only, with the calls counted: `ins` counts
\* the insert calls that returned, `del` the deleteMin/deleteMax calls made on
\* a non-empty container
CountInsert(i, k, v) ==
    /\ calls[i].ins < MaxCalls
    /\ Insert(i, k, v)
    /\ calls' = [calls EXCEPT ![i].ins = @ + 1]

CountInsertAllocFail(i, k, v) == InsertAllocFail(i, k, v) /\ UNCHANGED calls

CountDeleteMin(i) ==
    /\ DeleteMin(i)
    /\ calls' = [calls EXCEPT ![i].del = IF empty(q[i]) THEN @ ELSE @ + 1]

CountDeleteMax(i) ==
    /\ DeleteMax(i)
    /\ calls' = [calls EXCEPT ![i].del = IF empty(q[i]) THEN @ ELSE @ + 1]

NextCount ==
    \/ \E i \in Queues, k \in Keys, v \in Values : CountInsert(i, k, v)
    \/ \E i \in Queues, k \in Keys, v \in Values : CountInsertAllocFail(i, k, v)
    \/ \E i \in Queues : CountDeleteMin(i)
    \/ \E i \in Queues : CountDeleteMax(i)

SpecCount == Init /\ [][NextCount]_vars

\* The comparisons are functions of two containers: they are applied to
\* containers built by the calls below, each object up to MaxEntries entries,
\* with no record kept of the building calls.
Built == Call("build", "a", "a", 0, 0, Result("none", 0, <<>>))

Build(i, c) ==
    /\ pc = "idle"
    /\ q' = [q EXCEPT ![i] = c]
    /\ last' = Built
    /\ UNCHANGED <<pc, pre, calls>>

BuildInsert(i, k, v) ==
    /\ Len(q[i]) < MaxEntries
    /\ Build(i, insert(q[i], k, v))

BuildDeleteMin(i) == Build(i, deleteMin(q[i]).container)

BuildChangeValue(i, k, v) == Build(i, changeValue(q[i], k, v, FALSE).container)

Compare(i, j) ==
    /\ pc = "idle"
    /\ last' = [Built EXCEPT
                  !.op = "compare", !.self = i, !.other = j,
                  !.ret = [eq |-> operatorEq(q[i], q[j]),
                           ne |-> operatorNe(q[i], q[j]),
                           lt |-> operatorLt(q[i], q[j]),
                           gt |-> operatorGt(q[i], q[j]),
                           le |-> operatorLe(q[i], q[j]),
                           ge |-> operatorGe(q[i], q[j])]]
    /\ UNCHANGED <<q, pc, pre, calls>>

NextCompare ==
    \/ \E i \in Queues, k \in Keys, v \in Values : BuildInsert(i, k, v)
    \/ \E i \in Queues : BuildDeleteMin(i)
    \/ \E i \in Queues, k \in Keys, v \in Values : BuildChangeValue(i, k, v)
    \/ \E i \in Queues, j \in Queues : Compare(i, j)

SpecCompare == Init /\ [][NextCompare]_vars

\* ------------------------------------------------------------- properties
\* The statements below speak of a container by its entries: Count is the
\* multiplicity of a pair, and the order of the entries is the (value, key)
\* order written out here, independently of the container's comparison.

AllPairs == Values \X Keys
Entries(c) == {c[n] : n \in DOMAIN c}
Count(c, p) == Cardinality({n \in DOMAIN c : c[n] = p})
HasKey(c, k) == \E n \in DOMAIN c : c[n][2] = k
ValueKeyLeq(x, y) == x[1] < y[1] \/ (x[1] = y[1] /\ x[2] <= y[2])
Least(c) == CHOOSE p \in Entries(c) : \A r \in Entries(c) : ValueKeyLeq(p, r)
Greatest(c) == CHOOSE p \in Entries(c) : \A r \in Entries(c) : ValueKeyLeq(r, p)
One(b) == IF b THEN 1 ELSE 0
Others(i) == \A j \in Queues \ {i} : q[j] = pre[j]
Accessors == {"minValue", "maxValue", "minKey", "maxKey"}

\* C1: changeValue(k, v) on a container holding an entry with key k returns
\* without an error (memory exhaustion apart), removes exactly one entry whose
\* key is k, adds exactly one entry (k, v), leaves every other entry as it
\* was, and leaves size() unchanged.
C1_ChangeValueReplacesEntryOfKey ==
    (last.op = "changeValue" /\ HasKey(pre[last.self], last.key)
        /\ last.err # "bad_alloc")
    => /\ last.err = "none"
       /\ \E old \in Values :
            /\ Count(pre[last.self], <<old, last.key>>) > 0
            /\ \A p \in AllPairs :
                 Count(q[last.self], p) =
                    Count(pre[last.self], p) - One(p = <<old, last.key>>)
                        + One(p = <<last.value, last.key>>)
       /\ size(q[last.self]) = size(pre[last.self])
       /\ Others(last.self)

\* C2: changeValue(k, v) on a container holding no entry with key k (the
\* empty container included) raises the key-not-found error, for every v,
\* and leaves the container's entries exactly as they were.
C2_ChangeValueAbsentKeyNotFound ==
    (last.op = "changeValue" /\ ~HasKey(pre[last.self], last.key)
        /\ last.err # "bad_alloc")
    => /\ last.err = "NotFound"
       /\ q = pre

\* C3: the self-merge a.merge(a) returns, in every state of a, and leaves a
\* with the entries it had.
C3_SelfMergeReturnsUnchanged ==
    /\ (pc # "idle" /\ last.op = "merge" /\ last.self = last.other) ~> (pc = "idle")
    /\ [](pc = "idle" /\ last.op = "merge" /\ last.self = last.other
            /\ last.err = "none" => q = pre)

\* C4: a.merge(b) on two distinct containers, when it returns, leaves b
\* empty and a with the entries of both, each pair as often as a and b held
\* it together; a.size() is the sum of the two sizes.
C4_MergeIsMultisetUnion ==
    (pc = "idle" /\ last.op = "merge" /\ last.self # last.other
        /\ last.err = "none")
    => /\ empty(q[last.other])
       /\ \A p \in AllPairs :
            Count(q[last.self], p) =
                Count(pre[last.self], p) + Count(pre[last.other], p)
       /\ size(q[last.self]) = size(pre[last.self]) + size(pre[last.other])

C4_Witness ==
    /\ pc = "idle" /\ last.op = "merge" /\ last.self # last.other
    /\ last.err = "none"
    /\ \E p \in AllPairs :
         Count(pre[last.self], p) > 0 /\ Count(pre[last.other], p) > 0
    /\ size(q[last.self]) = 2

\* C5: deleteMin and deleteMax raise no error in any state, and on an empty
\* container they leave it empty, size() = 0.
C5_DeleteOnEmptyIsNoOp ==
    last.op \in {"deleteMin", "deleteMax"}
    => /\ last.err = "none"
       /\ empty(pre[last.self]) => empty(q[last.self]) /\ size(q[last.self]) = 0

C5_Witness ==
    /\ last.op = "deleteMin" /\ empty(pre[last.self])
    /\ last.err = "none" /\ empty(q[last.self])
    /\ \E j \in Queues : ~empty(q[j])

\* C6: minValue, maxValue, minKey and maxKey raise the empty-container error
\* exactly when the container is empty at the call, raise nothing else, and
\* leave the containers as they were in both cases.
C6_AccessorsRaiseIffEmpty ==
    last.op \in Accessors
    => /\ last.err = "Empty" <=> empty(pre[last.self])
       /\ last.err \in {"Empty", "none"}
       /\ q = pre

C6_Witness ==
    /\ last.op = "minValue" /\ last.err = "Empty"
    /\ empty(pre[last.self]) /\ q = pre
    /\ \E j \in Queues : ~empty(q[j])

\* C7: on a non-empty container minValue and minKey return the value and the
\* key of the entry least in (value, key) order, maxValue and maxKey those of
\* the greatest; so minValue() <= maxValue(), and both are the stored value
\* when size() = 1.
C7_AccessorsReturnExtremes ==
    /\ (last.op \in Accessors /\ ~empty(pre[last.self]))
       => /\ last.err = "none"
          /\ last.op = "minValue" => last.ret = Least(pre[last.self])[1]
          /\ last.op = "minKey" => last.ret = Least(pre[last.self])[2]
          /\ last.op = "maxValue" => last.ret = Greatest(pre[last.self])[1]
          /\ last.op = "maxKey" => last.ret = Greatest(pre[last.self])[2]
    /\ \A i \in Queues :
         ~empty(q[i])
         => /\ minValue(q[i]).ret <= maxValue(q[i]).ret
            /\ \A p \in Entries(q[i]) :
                 minValue(q[i]).ret <= p[1] /\ p[1] <= maxValue(q[i]).ret
            /\ size(q[i]) = 1
               => minValue(q[i]).ret = q[i][1][1] /\ maxValue(q[i]).ret = q[i][1][1]

\* two entries of one value and different keys: minKey returned the smaller key
C7_Witness ==
    /\ last.op = "minKey" /\ last.err = "none"
    /\ \E p \in Entries(pre[last.self]), r \in Entries(pre[last.self]) :
         p[1] = r[1] /\ p[2] < r[2] /\ last.ret = p[2]

\* C8: on a non-empty container deleteMin removes one occurrence of the
\* entry least in (value, key) order and deleteMax one occurrence of the
\* greatest; every other entry, its other duplicates included, remains, and
\* size() goes down by exactly 1.
C8_DeleteRemovesOneExtreme ==
    (last.op \in {"deleteMin", "deleteMax"} /\ ~empty(pre[last.self]))
    => LET gone == IF last.op = "deleteMin" THEN Least(pre[last.self])
                   ELSE Greatest(pre[last.self])
       IN  /\ \A p \in AllPairs :
                Count(q[last.self], p) = Count(pre[last.self], p) - One(p = gone)
           /\ size(q[last.self]) = size(pre[last.self]) - 1
           /\ Others(last.self)

\* deleteMax on a container that held its greatest pair twice
C8_Witness ==
    /\ last.op = "deleteMax" /\ ~empty(pre[last.self])
    /\ Count(pre[last.self], Greatest(pre[last.self])) = 2
    /\ Count(q[last.self], Greatest(pre[last.self])) = 1

\* C9: insert(k, v) rejects no duplicate: in every state, also one holding
\* key k, value v or the pair (k, v) already, it raises no error but for
\* memory exhaustion, and when it returns the pair (k, v) is held once more,
\* every other pair as often as before, and size() is up by exactly 1.
C9_InsertAddsOneEntry ==
    last.op = "insert"
    => /\ last.err \in {"none", "bad_alloc"}
       /\ last.err = "none"
          => /\ \A p \in AllPairs :
                  Count(q[last.self], p) =
                     Count(pre[last.self], p) + One(p = <<last.value, last.key>>)
             /\ size(q[last.self]) = size(pre[last.self]) + 1
             /\ Others(last.self)

\* insert of a pair the container held already
C9_Witness ==
    /\ last.op = "insert" /\ last.err = "none"
    /\ Count(pre[last.self], <<last.value, last.key>>) = 1
    /\ Count(q[last.self], <<last.value, last.key>>) = 2

\* C10: after any sequence of insert, deleteMin and deleteMax calls on an
\* initially empty container, size() is the number of insert calls that
\* returned less the number of deleteMin/deleteMax calls made on a non-empty
\* container, and empty() is true exactly when that number is zero.
C10_SizeCountsInsertsLessDeletions ==
    \A i \in Queues :
        /\ size(q[i]) = calls[i].ins - calls[i].del
        /\ empty(q[i]) <=> (calls[i].ins - calls[i].del = 0)

C10_Witness ==
    \E i \in Queues :
        /\ calls[i].ins = MaxCalls /\ calls[i].del >= 2
        /\ last.op = "deleteMax" /\ last.self = i /\ ~empty(pre[i])
        /\ ~empty(q[i])

\* C11: changeValue is strongly exception safe for every failure: when it
\* raises, be it key-not-found or the failure of the re-insertion of
\* (key, value) after the old entry was located, the container holds exactly
\* the entries it held before the call.
C11_ChangeValueFailureRestores ==
    (last.op = "changeValue" /\ last.err # "none") => q = pre

\* C12: merge is strongly exception safe: when an insertion into the target
\* fails partway through a.merge(b), a and b hold exactly the entries they
\* held before the call.
C12_MergeFailureRestores ==
    (pc = "idle" /\ last.op = "merge" /\ last.err = "bad_alloc") => q = pre

\* C13: at every step of a.merge(b) on distinct containers (a step is one
\* transfer, one turn of the loop), and in the state left when the merge
\* fails partway, a and b together hold every pair as often as they held it
\* together before the call: nothing is lost, nothing is there twice.
C13_MergeKeepsUnion ==
    (last.op = "merge" /\ last.self # last.other /\ pc \in {"merge", "idle"})
    => \A p \in AllPairs :
         Count(q[last.self], p) + Count(q[last.other], p) =
            Count(pre[last.self], p) + Count(pre[last.other], p)

\* the merge failed after it had transferred an entry
C13_Witness ==
    /\ last.op = "merge" /\ last.self # last.other /\ pc = "idle"
    /\ last.err = "bad_alloc"
    /\ size(q[last.self]) > size(pre[last.self])
    /\ ~empty(q[last.other])

\* C14: after copy construction or copy assignment b = a, b holds the entries
\* of a and a is as it was (a = a leaves a unchanged); and every insert,
\* deleteMin, deleteMax, changeValue or self-merge on one object leaves the
\* other object's contents as they were.
C14_CopyIsIndependent ==
    /\ (last.op \in {"copyConstruct", "copyAssign"} /\ last.err = "none")
       => /\ \A p \in AllPairs :
               Count(q[last.self], p) = Count(pre[last.other], p)
          /\ q[last.other] = pre[last.other]
          /\ last.self = last.other => q = pre
    /\ last.op \in {"insert", "deleteMin", "deleteMax", "changeValue"}
       => Others(last.self)
    /\ (last.op = "merge" /\ last.self = last.other) => Others(last.self)

\* b = a replaced a non-empty b by the different, non-empty contents of a
C14_Witness ==
    /\ last.op = "copyAssign" /\ last.err = "none" /\ last.self # last.other
    /\ ~empty(pre[last.self]) /\ ~empty(pre[last.other])
    /\ pre[last.self] # pre[last.other]
    /\ q[last.self] = q[last.other]

\* C15: after move construction or move assignment of b from a distinct a,
\* b holds exactly the entries a held (its own are gone), a is empty, and no
\* error is raised.
C15_MoveTransfers ==
    (last.op \in {"moveConstruct", "moveAssign"} /\ last.self # last.other)
    => /\ last.err = "none"
       /\ q[last.self] = pre[last.other]
       /\ empty(q[last.other])

C15_Witness ==
    /\ last.op = "moveAssign" /\ last.self # last.other
    /\ ~empty(pre[last.self]) /\ ~empty(pre[last.other])
    /\ pre[last.self] # pre[last.other]
    /\ q[last.self] = pre[last.other] /\ empty(q[last.other])

\* C18: a.swap(b) and swap(a, b) exchange the contents of the two objects,
\* raise no error, leave both as they were when a and b are one object, and
\* a second swap restores both.
C18_SwapExchanges ==
    last.op \in {"swap", "swapFree"}
    => /\ last.err = "none"
       /\ q[last.self] = pre[last.other]
       /\ q[last.other] = pre[last.self]
       /\ last.self = last.other => q = pre
       /\ swap(q[last.self], q[last.other]) = Both(pre[last.self], pre[last.other])

C18_Witness ==
    /\ last.op = "swapFree" /\ last.self # last.other
    /\ ~empty(pre[last.self]) /\ ~empty(pre[last.other])
    /\ pre[last.self] # pre[last.other]
    /\ q[last.self] = pre[last.other] /\ q[last.other] = pre[last.self]

\* the container after n deleteMin (deleteMax) calls in a row
RECURSIVE DeleteMinTimes(_, _)
DeleteMinTimes(c, n) ==
    IF n = 0 THEN c ELSE DeleteMinTimes(deleteMin(c).container, n - 1)

RECURSIVE DeleteMaxTimes(_, _)
DeleteMaxTimes(c, n) ==
    IF n = 0 THEN c ELSE DeleteMaxTimes(deleteMax(c).container, n - 1)

\* C19: from a state with n entries, deleteMin called over and over empties
\* the container after exactly n calls, and minValue() read before each call
\* never goes down; likewise deleteMax, where maxValue() never goes up.
C19_RepeatedDeleteDrainsInOrder ==
    /\ \A i \in Queues :
         LET c == q[i]
             n == size(c)
         IN  /\ empty(DeleteMinTimes(c, n)) /\ empty(DeleteMaxTimes(c, n))
             /\ \A m \in 0..(n - 1) :
                  ~empty(DeleteMinTimes(c, m)) /\ ~empty(DeleteMaxTimes(c, m))
             /\ \A m \in 0..(n - 2) :
                  /\ minValue(DeleteMinTimes(c, m)).ret
                        <= minValue(DeleteMinTimes(c, m + 1)).ret
                  /\ maxValue(DeleteMaxTimes(c, m)).ret
                        >= maxValue(DeleteMaxTimes(c, m + 1)).ret
    /\ (last.op = "deleteMin" /\ ~empty(q[last.self]))
       => minValue(pre[last.self]).ret <= minValue(q[last.self]).ret
    /\ (last.op = "deleteMax" /\ ~empty(q[last.self]))
       => maxValue(pre[last.self]).ret >= maxValue(q[last.self]).ret

\* a deleteMin after which minValue() is greater than before
C19_Witness ==
    /\ last.op = "deleteMin" /\ size(pre[last.self]) = 2
    /\ minValue(pre[last.self]).ret < minValue(q[last.self]).ret
    /\ empty(DeleteMinTimes(pre[last.self], 2))

\* C20: whenever changeValue(k, v) returns, key k present or not, size() is
\* what it was and the container holds at least one entry (k, v).
C20_ChangeValueReturnKeepsSize ==
    (last.op = "changeValue" /\ last.err = "none")
    => /\ size(q[last.self]) = size(pre[last.self])
       /\ Count(q[last.self], <<last.value, last.key>>) >= 1

\* changeValue returned although no entry had the key
C20_Witness ==
    /\ last.op = "changeValue" /\ last.err = "none"
    /\ ~HasKey(pre[last.self], last.key)
    /\ Count(q[last.self], <<last.value, last.key>>) = 1

\* what is said of the comparisons, written out without them
SameEntries(c, d) == \A p \in AllPairs : Count(c, p) = Count(d, p)
InValueKeyOrder(c) == \A n \in 1..Len(c), m \in 1..Len(c) : n < m => ValueKeyLeq(c[n], c[m])
LexBefore(c, d) ==
    \E n \in 1..Len(d) :
        /\ n <= Len(c) + 1
        /\ \A m \in 1..(n - 1) : c[m] = d[m]
        /\ n = Len(c) + 1 \/ (ValueKeyLeq(c[n], d[n]) /\ c[n] # d[n])

\* the two containers, and what one more delete, or a delete and an insert,
\* makes of them
Nearby ==
    LET S == {q[i] : i \in Queues}
    IN  S \cup {deleteMin(c).container : c \in S}
          \cup {insert(deleteMax(c).container, p[2], p[1]) : c \in S, p \in AllPairs}

\* C16: a == b holds exactly when a and b hold the same sequence of pairs in
\* (value, key) order, that is the same entries with the same multiplicities,
\* whatever the order of the calls that built them; == is reflexive,
\* symmetric and transitive.
C16_EqualityIsSameEntries ==
    /\ \A i \in Queues : InValueKeyOrder(q[i])
    /\ \A c \in Nearby, d \in Nearby :
         /\ operatorEq(c, d) <=> SameEntries(c, d)
         /\ operatorEq(c, c)
         /\ operatorEq(c, d) <=> operatorEq(d, c)
         /\ \A e \in Nearby : operatorEq(c, d) /\ operatorEq(d, e) => operatorEq(c, e)
    /\ last.op = "compare"
       => (last.ret.eq <=> SameEntries(q[last.self], q[last.other]))

\* a == b was true of two objects holding two entries of one value
C16_Witness ==
    /\ last.op = "compare" /\ last.self # last.other /\ last.ret.eq
    /\ size(q[last.self]) = 2
    /\ q[last.self][1][1] = q[last.self][2][1]
    /\ q[last.self][1][2] # q[last.self][2][2]

\* C17: for all containers a and b exactly one of a < b, a == b, b < a holds;
\* a <= b is (a < b or a == b), a > b is b < a, a >= b is not a < b, a != b is
\* not a == b; and < is the lexicographic order of the two sequences of pairs.
C17_RelationalOperatorsConsistent ==
    /\ \A c \in Nearby, d \in Nearby :
         /\ One(operatorLt(c, d)) + One(operatorEq(c, d)) + One(operatorLt(d, c)) = 1
         /\ operatorLe(c, d) <=> (operatorLt(c, d) \/ operatorEq(c, d))
         /\ operatorGt(c, d) <=> operatorLt(d, c)
         /\ operatorGe(c, d) <=> ~operatorLt(c, d)
         /\ operatorNe(c, d) <=> ~operatorEq(c, d)
         /\ operatorLt(c, d) <=> LexBefore(c, d)
    /\ last.op = "compare"
       => LET c == q[last.self]
              d == q[last.other]
          IN  /\ last.ret.lt <=> LexBefore(c, d)
              /\ last.ret.le <=> (last.ret.lt \/ last.ret.eq)
              /\ last.ret.gt <=> LexBefore(d, c)
              /\ last.ret.ge <=> ~last.ret.lt
              /\ last.ret.ne <=> ~last.ret.eq

\* a < b was true of a container and one that continues it
C17_Witness ==
    /\ last.op = "compare" /\ last.ret.lt /\ last.ret.le /\ ~last.ret.ge
    /\ size(q[last.self]) = 1 /\ size(q[last.other]) = 2
    /\ q[last.other][1] = q[last.self][1]

====
